---- MODULE Spec2Model ----
(***************************************************************************)
(* PDF-Paragraph-Splitter: the section matcher of src/main.cpp.            *)
(*                                                                         *)
(* A std::string is a sequence of byte values 0..255.  A std::stack is a   *)
(* sequence whose top is its last element, a std::queue a sequence whose   *)
(* front is its first element.  Offsets are 0-based as in the source, so   *)
(* the byte at offset o of s is s[o + 1].  char is signed (x86 ABI): a     *)
(* byte >= 128 is a negative char.                                         *)
(***************************************************************************)
EXTENDS Integers, Sequences, FiniteSets, TLC

VARIABLES
    document,      \* the opened PDF: [hasTOC, titles, pages] (raw outline titles, raw page texts)
    pc,            \* position in convertPDF / extractText
    sections,      \* std::stack<std::string> worklist, top = last element
    sectionTexts,  \* std::vector<std::string> section buffers
    usedSections,  \* std::queue<std::string> log of matched titles, front = first element
    i,             \* page index of convertPDF's loop
    content,       \* extractText's by-value parameter: the unconsumed page text
    json,          \* emitted records, in order
    iters,         \* history: do-while iterations of the current extractText call
    entrySize,     \* history: worklist size when the current call was entered
    totalIters,    \* history: do-while iterations of the whole conversion
    last,          \* history: what the latest do-while iteration saw and decided
    cuts,          \* history: one entry per matched title: where it was cut
    spans          \* history: per section buffer, the spans appended to it, in order

vars == <<document, pc, sections, sectionTexts, usedSections, i, content, json,
          iters, entrySize, totalIters, last, cuts, spans>>

-----------------------------------------------------------------------------
(* Bounds of the model                                                     *)

MaxTitles == 2
MaxPages == 2
MaxChunks == 3
MaxTitleLen == 15
MaxPad == 1
MaxEdits == 3

-----------------------------------------------------------------------------
(* Strings                                                                 *)

Min(a, b) == IF a <= b THEN a ELSE b

\* std::string::substr(pos, len), for pos <= size (the only way the code calls it)
Substr(s, pos, len) == SubSeq(s, pos + 1, Min(pos + len, Len(s)))

\* std::string::substr(pos)
SubstrFrom(s, pos) == SubSeq(s, pos + 1, Len(s))

\* s[pos] of a std::string: s[size()] is the terminating '\0'
ByteAt(s, pos) == IF pos = Len(s) THEN 0 ELSE s[pos + 1]

\* char(c) < 0 with a signed char
NegativeChar(b) == b >= 128

\* the characters \s matches in the "C" locale
WhiteSpace == {9, 10, 11, 12, 13, 32}

RECURSIVE Normalize(_)
\* std::regex_replace(s, \s+, " "): every maximal whitespace run becomes one space
Normalize(s) ==
    IF s = <<>> THEN <<>>
    ELSE IF Head(s) \in WhiteSpace
         THEN IF Len(s) > 1 /\ s[2] \in WhiteSpace
              THEN Normalize(Tail(s))
              ELSE <<32>> \o Normalize(Tail(s))
         ELSE <<Head(s)>> \o Normalize(Tail(s))

-----------------------------------------------------------------------------
(* Levenshtein distance, by rows of the table d                            *)

Min3(a, b, c) == Min(a, Min(b, c))

RECURSIVE DistanceRow(_, _, _, _, _)
\* row i of d, filled left to right; acc holds d[i][0..j-1], prev is row i-1
DistanceRow(s1, s2, row, prev, acc) ==
    LET j == Len(acc)
    IN  IF j > Len(s2) THEN acc
        ELSE DistanceRow(s1, s2, row, prev,
                 Append(acc, Min3(prev[j + 1] + 1,
                                  acc[j] + 1,
                                  prev[j] + (IF s1[row] = s2[j] THEN 0 ELSE 1))))

RECURSIVE DistanceRows(_, _, _, _)
DistanceRows(s1, s2, row, prev) ==
    IF row > Len(s1) THEN prev
    ELSE DistanceRows(s1, s2, row + 1, DistanceRow(s1, s2, row, prev, <<row>>))

distance(s1, s2) ==
    DistanceRows(s1, s2, 1, [j \in 1..(Len(s2) + 1) |-> j - 1])[Len(s2) + 1]

-----------------------------------------------------------------------------
(* The similarity threshold: std::round((float)length * 0.1f) in binary32  *)

\* 0.1f is 13421773 * 2^-27
TenthMantissa == 13421773

RECURSIVE Pow2(_)
Pow2(n) == IF n = 0 THEN 1 ELSE 2 * Pow2(n - 1)

RECURSIVE BitLen(_)
BitLen(n) == IF n = 0 THEN 0 ELSE 1 + BitLen(n \div 2)

\* an integer numerator (over 2^27) rounded to 24 significant bits, ties to even
RoundToFloat(p) ==
    IF BitLen(p) <= 24 THEN p
    ELSE LET s == BitLen(p) - 24
             q == p \div Pow2(s)
             r == p % Pow2(s)
             half == Pow2(s - 1)
             up == r > half \/ (r = half /\ q % 2 = 1)
         IN  (IF up THEN q + 1 ELSE q) * Pow2(s)

\* the threshold with the product truncated instead of rounded
ThresholdTruncated(len) == RoundToFloat(len * TenthMantissa) \div Pow2(27)

\* std::round of a non-negative value v / 2^27: halves go away from zero
Threshold(len) == (RoundToFloat(len * TenthMantissa) + Pow2(26)) \div Pow2(27)

-----------------------------------------------------------------------------
(* The scan of extractText                                                 *)

\* unsigned int dist = -1
UIntMax == -1

\* std::min on unsigned int, with -1 standing for UINT_MAX
UMin(a, b) == IF a = UIntMax THEN b ELSE IF b = UIntMax THEN a ELSE Min(a, b)

\* (float)dist > threshold
Exceeds(dist, threshold) == dist = UIntMax \/ dist > threshold

\* the position updated at every candidate, improved or not
UpdatePosAlways(dist, dist_before, cand, pos) == cand

\* if(dist != dist_before) pos = i - (int) separator.size();
UpdatePos(dist, dist_before, cand, pos) == IF dist # dist_before THEN cand ELSE pos

RECURSIVE ScanLoop(_, _, _, _, _)
\* the for loop from index idx on; the result is <<dist, pos>>
ScanLoop(text, separator, idx, dist, pos) ==
    IF idx < Len(separator) THEN <<dist, pos>>
    ELSE LET substring == Substr(text, idx - Len(separator), Len(separator))
             d == UMin(dist, distance(substring, separator))
             p == UpdatePos(d, dist, idx - Len(separator), pos)
         IN  IF d = 0 THEN <<d, p>>
             ELSE ScanLoop(text, separator, idx - 1, d, p)

Scan(text, separator) ==
    ScanLoop(text, separator, Len(text) - Len(separator), UIntMax, 0)

RECURSIVE ShiftLeft(_, _)
\* while(pos > 0 && char(content[pos]) < 0) pos--;
ShiftLeft(text, pos) ==
    IF pos > 0 /\ NegativeChar(ByteAt(text, pos)) THEN ShiftLeft(text, pos - 1) ELSE pos

-----------------------------------------------------------------------------
(* Containers                                                              *)

Top(s) == s[Len(s)]

\* a pop that is forgotten
PopLeavesTop(s) == s

Pop(s) == SubSeq(s, 1, Len(s) - 1)
Push(s, x) == Append(s, x)

\* the segment put in front of the buffer instead of behind it
PrependToBack(texts, segment) ==
    [texts EXCEPT ![Len(texts)] = segment \o texts[Len(texts)]]

\* sectionTexts.back().append(segment)
AppendToBack(texts, segment) ==
    [texts EXCEPT ![Len(texts)] = texts[Len(texts)] \o segment]

RECURSIVE loadTOCReversed(_, _)
\* the children pushed last to first
loadTOCReversed(tocStack, titles) ==
    IF titles = <<>> THEN tocStack
    ELSE Push(loadTOCReversed(tocStack, Tail(titles)), Normalize(Head(titles)))

RECURSIVE loadTOC(_, _)
\* pushes the normalized title of every child of the root, in outline order
loadTOC(tocStack, titles) ==
    IF titles = <<>> THEN tocStack
    ELSE loadTOC(Push(tocStack, Normalize(Head(titles))), Tail(titles))

-----------------------------------------------------------------------------
(* Input documents                                                         *)

SeqsUpTo(S, n) == UNION {[1..k -> S] : k \in 0..n}

Rep(b, n) == [k \in 1..n |-> b]

RECURSIVE Concat(_)
Concat(ss) == IF ss = <<>> THEN <<>> ELSE Head(ss) \o Concat(Tail(ss))

\* Outlines and pages with several titles and several pages.
\* Titles: "", "ab", "c<TAB><SP>d".
OutlineTitles == {<<>>, <<97, 98>>, <<99, 9, 32, 100>>}

\* Pages: "", "c<SP><LF>dzzzabyy", "zzabyy", "yyab", "q<SP><SP>r".
OutlinePages ==
    {<<>>,
     <<99, 32, 10, 100, 122, 122, 122, 97, 98, 121, 121>>,
     <<122, 122, 97, 98, 121, 121>>,
     <<121, 121, 97, 98>>,
     <<113, 32, 32, 114>>}

OutlineDocs ==
    {[hasTOC |-> TRUE, titles |-> t, pages |-> p] :
        t \in SeqsUpTo(OutlineTitles, MaxTitles), p \in SeqsUpTo(OutlinePages, MaxPages)}

\* One title against one page assembled from chunks.
\* Chunks: "abcde", "abxde", "bcde", "zzzzz", "z", "ab", "e-acute" (C3 A9).
Chunks ==
    {<<97, 98, 99, 100, 101>>,
     <<97, 98, 120, 100, 101>>,
     <<98, 99, 100, 101>>,
     <<122, 122, 122, 122, 122>>,
     <<122>>,
     <<97, 98>>,
     <<195, 169>>}

ChunkTitles == {<<97, 98, 99, 100, 101>>, <<97, 98>>, <<195, 169>>}

ChunkDocs ==
    {[hasTOC |-> TRUE, titles |-> <<t>>, pages |-> <<Concat(c)>>] :
        t \in ChunkTitles, c \in SeqsUpTo(Chunks, MaxChunks)}

\* A title a^len against a page b^p a^(len-k) b^(k+q): the window at offset p is
\* k substitutions away from the title and no window is closer.
EditDocs ==
    {[hasTOC |-> TRUE,
      titles |-> <<Rep(97, d[1])>>,
      pages  |-> <<Rep(98, d[3]) \o Rep(97, d[1] - d[2]) \o Rep(98, d[2] + d[4])>>] :
        d \in {e \in (0..MaxTitleLen) \X (0..MaxTitleLen) \X (0..MaxPad) \X (0..(MaxTitleLen + MaxPad)) :
                  /\ e[2] <= Min(e[1], MaxEdits)
                  /\ e[4] >= e[1] - 1
                  /\ e[4] <= e[1] + MaxPad}}

\* The document of the end-to-end example: the outline Intro, Methods, Results and
\* the text "Intro hello world Methods foo bar Results done" on one of three pages.
Intro == <<73, 110, 116, 114, 111>>
Methods == <<77, 101, 116, 104, 111, 100, 115>>
Results == <<82, 101, 115, 117, 108, 116, 115>>
ExampleText ==
    Intro \o <<32, 104, 101, 108, 108, 111, 32, 119, 111, 114, 108, 100, 32>> \o
    Methods \o <<32, 102, 111, 111, 32, 98, 97, 114, 32>> \o
    Results \o <<32, 100, 111, 110, 101>>

ExampleDocs ==
    {[hasTOC |-> TRUE, titles |-> <<Intro, Methods, Results>>,
      pages |-> [n \in 1..3 |-> IF n = k THEN ExampleText ELSE <<>>]] : k \in 1..3}

\* Documents without an outline.
NoOutlineDocs ==
    {[hasTOC |-> FALSE, titles |-> <<>>, pages |-> p] : p \in SeqsUpTo(OutlinePages, 1)}

Documents == OutlineDocs \cup ChunkDocs \cup EditDocs \cup ExampleDocs \cup NoOutlineDocs

-----------------------------------------------------------------------------
(* convertPDF and extractText                                              *)

NoIteration ==
    [kind |-> "none", separator |-> <<>>, text |-> <<>>, back |-> <<>>,
     dist |-> 0, best |-> 0, pos |-> 0, size |-> 0, used |-> 0]

Init ==
    /\ document \in Documents
    /\ pc = "start"
    /\ sections = <<>>
    /\ sectionTexts = <<>>
    /\ usedSections = <<>>
    /\ i = 0
    /\ content = <<>>
    /\ json = <<>>
    /\ iters = 0
    /\ entrySize = 0
    /\ totalIters = 0
    /\ last = NoIteration
    /\ cuts = <<>>
    /\ spans = <<>>

\* convertPDF up to its page loop, for a document with an outline
LoadDocument ==
    /\ pc = "start"
    /\ document.hasTOC
    /\ sections' = loadTOC(<<>>, document.titles)
    /\ sectionTexts' = << <<>> >>
    /\ usedSections' = <<>>
    /\ i' = Len(document.pages) - 1
    /\ spans' = << <<>> >>
    /\ pc' = "pages"
    /\ UNCHANGED <<document, content, json, iters, entrySize, totalIters, last, cuts>>

\* convertPDF for a document without an outline: the title is printed, nothing is written
Unsupported ==
    /\ pc = "start"
    /\ ~document.hasTOC
    /\ pc' = "done"
    /\ UNCHANGED <<document, sections, sectionTexts, usedSections, i, content, json,
                   iters, entrySize, totalIters, last, cuts, spans>>

\* one turn of the page loop: the page's text is normalized and handed to extractText
ReadPage ==
    /\ pc = "pages"
    /\ i >= 0
    /\ content' = Normalize(document.pages[i + 1])
    /\ iters' = 0
    /\ entrySize' = Len(sections)
    /\ pc' = "extract"
    /\ UNCHANGED <<document, sections, sectionTexts, usedSections, i, json,
                   totalIters, last, cuts, spans>>

\* a do-while iteration that finds the worklist empty: extractText returns
ExtractReturn ==
    /\ pc = "extract"
    /\ sections = <<>>
    /\ iters' = iters + 1
    /\ totalIters' = totalIters + 1
    /\ last' = [NoIteration EXCEPT !.kind = "return", !.text = content,
                                   !.back = sectionTexts[Len(sectionTexts)],
                                   !.used = Len(usedSections)]
    /\ i' = i - 1
    /\ pc' = "pages"
    /\ UNCHANGED <<document, sections, sectionTexts, usedSections, content, json,
                   entrySize, cuts, spans>>

\* what a do-while iteration computes before it decides
Iteration ==
    LET separator == Top(sections)
        found == Scan(content, separator)
    IN  [kind |-> "none", separator |-> separator, text |-> content,
         back |-> sectionTexts[Len(sectionTexts)],
         dist |-> found[1], best |-> found[2], pos |-> ShiftLeft(content, found[2]),
         size |-> Len(sections), used |-> Len(usedSections)]

\* a do-while iteration that finds the title: split, pop, open a buffer, log the title
ExtractMatch ==
    /\ pc = "extract"
    /\ sections # <<>>
    /\ LET it == Iteration
       IN  /\ ~Exceeds(it.dist, Threshold(Len(it.separator)))
           /\ sectionTexts' = Append(AppendToBack(sectionTexts, SubstrFrom(content, it.pos)), <<>>)
           /\ content' = Substr(content, 0, it.pos)
           /\ sections' = Pop(sections)
           /\ usedSections' = Append(usedSections, it.separator)
           /\ last' = [it EXCEPT !.kind = "match"]
           /\ cuts' = Append(cuts, [separator |-> it.separator, page |-> i,
                                    best |-> it.best, pos |-> it.pos])
           /\ spans' = Append([spans EXCEPT ![Len(spans)] =
                                  Append(@, [page |-> i, from |-> it.pos, to |-> Len(content)])],
                              <<>>)
    /\ iters' = iters + 1
    /\ totalIters' = totalIters + 1
    /\ UNCHANGED <<document, pc, i, json, entrySize>>

\* a do-while iteration that does not find the title: the whole content goes to the
\* current buffer and extractText returns
ExtractNoMatch ==
    /\ pc = "extract"
    /\ sections # <<>>
    /\ LET it == Iteration
       IN  /\ Exceeds(it.dist, Threshold(Len(it.separator)))
           /\ sectionTexts' = AppendToBack(sectionTexts, content)
           /\ last' = [it EXCEPT !.kind = "nomatch"]
           /\ spans' = [spans EXCEPT ![Len(spans)] =
                           Append(@, [page |-> i, from |-> 0, to |-> Len(content)])]
    /\ iters' = iters + 1
    /\ totalIters' = totalIters + 1
    /\ i' = i - 1
    /\ pc' = "pages"
    /\ UNCHANGED <<document, sections, usedSections, content, json, entrySize, cuts>>

\* the page loop ends
PagesDone ==
    /\ pc = "pages"
    /\ i < 0
    /\ pc' = "cleanup"
    /\ UNCHANGED <<document, sections, sectionTexts, usedSections, i, content, json,
                   iters, entrySize, totalIters, last, cuts, spans>>

\* sectionTexts.erase(sectionTexts.end()) has undefined behaviour.  A release build
\* of libstdc++ destroys the last element ...
EraseEndRemovesLast ==
    /\ pc = "cleanup"
    /\ Len(sectionTexts) > Len(usedSections)
    /\ sectionTexts' = SubSeq(sectionTexts, 1, Len(sectionTexts) - 1)
    /\ spans' = SubSeq(spans, 1, Len(spans) - 1)
    /\ UNCHANGED <<document, pc, sections, usedSections, i, content, json,
                   iters, entrySize, totalIters, last, cuts>>

\* ... and a build with container assertions (or another standard library) aborts.
EraseEndAborts ==
    /\ pc = "cleanup"
    /\ Len(sectionTexts) > Len(usedSections)
    /\ pc' = "aborted"
    /\ UNCHANGED <<document, sections, sectionTexts, usedSections, i, content, json,
                   iters, entrySize, totalIters, last, cuts, spans>>

\* the clean-up loop ends
CleanUpDone ==
    /\ pc = "cleanup"
    /\ Len(sectionTexts) <= Len(usedSections)
    /\ pc' = "emit"
    /\ UNCHANGED <<document, sections, sectionTexts, usedSections, i, content, json,
                   iters, entrySize, totalIters, last, cuts, spans>>

\* one turn of the record loop: usedSections.front() of an empty queue is undefined
EmitRecord ==
    /\ pc = "emit"
    /\ Len(json) < Len(sectionTexts)
    /\ IF usedSections = <<>>
       THEN pc' = "aborted" /\ UNCHANGED <<json, usedSections>>
       ELSE /\ json' = Append(json, [text |-> sectionTexts[Len(json) + 1],
                                     paragraph |-> Head(usedSections)])
            /\ usedSections' = Tail(usedSections)
            /\ pc' = pc
    /\ UNCHANGED <<document, sections, sectionTexts, i, content,
                   iters, entrySize, totalIters, last, cuts, spans>>

\* the records are written to output.json
WriteOutput ==
    /\ pc = "emit"
    /\ Len(json) = Len(sectionTexts)
    /\ pc' = "done"
    /\ UNCHANGED <<document, sections, sectionTexts, usedSections, i, content, json,
                   iters, entrySize, totalIters, last, cuts, spans>>

Next ==
    \/ LoadDocument
    \/ Unsupported
    \/ ReadPage
    \/ ExtractReturn
    \/ ExtractMatch
    \/ ExtractNoMatch
    \/ PagesDone
    \/ EraseEndRemovesLast
    \/ EraseEndAborts
    \/ CleanUpDone
    \/ EmitRecord
    \/ WriteOutput

Spec == Init /\ [][Next]_vars

-----------------------------------------------------------------------------
(* Vocabulary of the properties                                            *)

\* the offsets a specification of the matcher calls candidates of one iteration
Candidates(it) == 0..(Len(it.text) - 2 * Len(it.separator))

\* the edit distance between the title and the window at offset o
WindowDist(it, o) == distance(Substr(it.text, o, Len(it.separator)), it.separator)

SetMin(S) == CHOOSE m \in S : \A n \in S : m <= n
SetMax(S) == CHOOSE m \in S : \A n \in S : m >= n

\* the least distance over the candidates (there is at least one)
MinDist(it) == SetMin({WindowDist(it, o) : o \in Candidates(it)})

\* the title stands verbatim at offset o of the content
OccursAt(it, o) ==
    /\ o + Len(it.separator) <= Len(it.text)
    /\ SubSeq(it.text, o + 1, o + Len(it.separator)) = it.separator

\* the tolerance as the specification states it: round(L * 0.1), halves up
Tolerance(len) == (len + 5) \div 10

Scanned == last.kind \in {"match", "nomatch"}

\* the state right after an iteration that accepted the title
Accepted ==
    /\ last.kind = "match"
    /\ Len(sections) = last.size - 1
    /\ Len(usedSections) = last.used + 1
    /\ usedSections[Len(usedSections)] = last.separator
    /\ content = Substr(last.text, 0, last.pos)
    /\ Len(sectionTexts) >= 2
    /\ sectionTexts[Len(sectionTexts) - 1] = last.back \o SubstrFrom(last.text, last.pos)
    /\ sectionTexts[Len(sectionTexts)] = <<>>

\* the state after an iteration that rejected the title (until the clean-up)
Rejected ==
    /\ last.kind = "nomatch"
    /\ pc \in {"pages", "extract"} =>
          /\ Len(sections) = last.size
          /\ Top(sections) = last.separator
          /\ Len(usedSections) = last.used
          /\ sectionTexts[Len(sectionTexts)] = last.back \o last.text

IsContinuation(b) == b >= 128 /\ b <= 191

RECURSIVE ValidUTF8(_)
\* well-formed UTF-8 of one- and two-byte code points
ValidUTF8(s) ==
    IF s = <<>> THEN TRUE
    ELSE IF Head(s) < 128 THEN ValidUTF8(Tail(s))
    ELSE /\ Head(s) >= 194 /\ Head(s) <= 223
         /\ Len(s) >= 2
         /\ IsContinuation(s[2])
         /\ ValidUTF8(Tail(Tail(s)))

Reverse(s) == [k \in 1..Len(s) |-> s[Len(s) + 1 - k]]

NormalizedPage(p) == Normalize(document.pages[p + 1])

SpanText(sp) == SubSeq(NormalizedPage(sp.page), sp.from + 1, sp.to)

SpanBytes(sp) == {<<sp.page, o>> : o \in sp.from..(sp.to - 1)}

RECURSIVE SumLen(_)
SumLen(ss) == IF ss = <<>> THEN 0 ELSE Len(Head(ss)) + SumLen(Tail(ss))

-----------------------------------------------------------------------------
(* C1: exact-match guarantee.  Whenever the title on top of the worklist is *)
(* not empty and stands verbatim at some offset of the content, at any      *)
(* offset, the iteration reaches distance 0, accepts the title and splits   *)
(* the content at the offset of a verbatim occurrence.                      *)
C1_ExactMatchGuarantee ==
    (/\ Scanned
     /\ last.separator # <<>>
     /\ \E o \in 0..Len(last.text) : OccursAt(last, o))
    => (/\ last.kind = "match"
        /\ last.dist = 0
        /\ OccursAt(last, last.pos))

-----------------------------------------------------------------------------
(* C2: tolerance boundary.  With T = (L + 5) div 10 for a title of length   *)
(* L, an iteration whose least distance over the candidates is exactly T    *)
(* accepts the title (popped, content split, logged) and one whose least    *)
(* distance is exactly T + 1 rejects it (title kept, nothing logged, whole  *)
(* content appended to the current buffer).                                 *)
C2_ToleranceBoundary ==
    (Scanned /\ Candidates(last) # {}) =>
        LET T == Tolerance(Len(last.separator))
        IN  /\ MinDist(last) = T => Accepted
            /\ MinDist(last) = T + 1 => Rejected

\* an iteration accepted a title of length >= 5 whose closest candidate is
\* exactly T >= 1 edits away
C2_AcceptedAtTolerance ==
    /\ last.kind = "match"
    /\ Len(last.separator) >= 5
    /\ last.dist = Tolerance(Len(last.separator))

-----------------------------------------------------------------------------
ExampleRecords ==
    {[paragraph |-> Intro,
      text |-> <<32, 104, 101, 108, 108, 111, 32, 119, 111, 114, 108, 100, 32>>],
     [paragraph |-> Methods,
      text |-> <<32, 102, 111, 111, 32, 98, 97, 114, 32>>],
     [paragraph |-> Results,
      text |-> <<32, 100, 111, 110, 101>>]}

(* C3: the end-to-end example.  The outline Intro, Methods, Results over    *)
(* the text "Intro hello world Methods foo bar Results done" yields exactly *)
(* three records, each title with the text that follows it.                 *)
C3_EndToEndExample ==
    (pc = "done" /\ document \in ExampleDocs) =>
        /\ Len(json) = 3
        /\ {json[k] : k \in 1..Len(json)} = ExampleRecords

-----------------------------------------------------------------------------
EmittedSpans == UNION {{spans[k][j] : j \in 1..Len(spans[k])} : k \in 1..Len(json)}

EmittedBytes == UNION {SpanBytes(sp) : sp \in EmittedSpans}

TitleBytes ==
    UNION {{<<cuts[k].page, o>> :
               o \in cuts[k].best..(cuts[k].best + Len(cuts[k].separator) - 1)} :
           k \in 1..Len(cuts)}

DocumentBytes ==
    UNION {{<<p, o>> : o \in 0..(Len(NormalizedPage(p)) - 1)} :
           p \in 0..(Len(document.pages) - 1)}

(* C4: coverage.  When a document with an outline has been converted, the   *)
(* bytes of the emitted texts and the bytes of the matched title windows    *)
(* partition the bytes of the normalized pages: nothing is lost, nothing is *)
(* emitted twice, and no emitted text holds bytes of a matched title.       *)
C4_Coverage ==
    (pc = "done" /\ document.hasTOC) =>
        /\ EmittedBytes \cap TitleBytes = {}
        /\ EmittedBytes \cup TitleBytes = DocumentBytes
        /\ SumLen([k \in 1..Len(json) |-> json[k].text]) = Cardinality(EmittedBytes)

-----------------------------------------------------------------------------
(* C5: section-count invariant.  During the page loop there is one buffer   *)
(* more than logged titles and as many logged titles as popped ones; the    *)
(* clean-up discards exactly the last buffer, so the conversion always gets *)
(* to emit one record per matched title, the k-th buffer with the k-th      *)
(* logged title, and never reads the empty log.                             *)
C5_SectionCount ==
    /\ pc \in {"pages", "extract"} =>
          /\ Len(sectionTexts) = Len(usedSections) + 1
          /\ Len(usedSections) = Len(document.titles) - Len(sections)
    /\ pc # "aborted"
    /\ pc \in {"emit", "done"} /\ document.hasTOC =>
          /\ Len(sectionTexts) = Len(cuts)
          /\ \A k \in 1..Len(json) :
                json[k] = [text |-> sectionTexts[k], paragraph |-> cuts[k].separator]
    /\ pc = "done" /\ document.hasTOC => Len(json) = Len(cuts)

-----------------------------------------------------------------------------
(* C6, as claimed: the boundary of an accepted title is the first candidate *)
(* the scan meets (the highest offset) whose distance is within tolerance;  *)
(* a candidate met later never replaces it.                                 *)
C6_FirstWithinTolerance ==
    last.kind = "match" =>
        last.best = SetMax({o \in Candidates(last) :
                               WindowDist(last, o) <= Tolerance(Len(last.separator))})

(* C6, amended: the boundary of an accepted title is a candidate of least   *)
(* distance over all candidates, and among the candidates of that least     *)
(* distance the one the scan meets first (the highest offset).              *)
C6_ClosestFirstMet ==
    last.kind = "match" =>
        last.best = SetMax({o \in Candidates(last) : WindowDist(last, o) = MinDist(last)})

\* an accepted title whose boundary lies below a candidate that is within
\* tolerance too, but farther from the title
C6_LaterCloserWins ==
    /\ last.kind = "match"
    /\ \E o \in Candidates(last) :
          /\ o > last.best
          /\ WindowDist(last, o) <= Tolerance(Len(last.separator))
          /\ WindowDist(last, o) > last.dist

-----------------------------------------------------------------------------
(* C7: LIFO matching order.  Once the outline is loaded, the titles already *)
(* emitted, then the logged titles, then the worklist from its top down are *)
(* the normalized outline titles in reverse order.                          *)
C7_LifoOrder ==
    (pc # "start" /\ document.hasTOC) =>
        [k \in 1..Len(json) |-> json[k].paragraph] \o usedSections \o Reverse(sections)
            = Reverse([k \in 1..Len(document.titles) |-> Normalize(document.titles[k])])

\* one title is logged while a different, earlier outline title still waits
C7_OneMatchedOneWaiting ==
    /\ Len(usedSections) >= 1
    /\ Len(sections) >= 1
    /\ usedSections[1] # Top(sections)
    /\ document.titles[1] # document.titles[Len(document.titles)]

-----------------------------------------------------------------------------
(* C8: multi-byte boundary adjustment.  For valid UTF-8 content the split   *)
(* offset of an accepted title is not inside a code point, the adjustment   *)
(* crosses continuation bytes only, and a best offset that is the first     *)
(* byte of a character is the split offset.                                 *)
C8_ContinuationBytesOnly ==
    (last.kind = "match" /\ ValidUTF8(last.text)) =>
        /\ ~IsContinuation(ByteAt(last.text, last.pos))
        /\ \A o \in (last.pos + 1)..last.best : IsContinuation(ByteAt(last.text, o))
        /\ ~IsContinuation(ByteAt(last.text, last.best)) => last.pos = last.best

-----------------------------------------------------------------------------
\* the pages handed to extractText so far
PagesVisited ==
    IF pc = "start" \/ ~document.hasTOC THEN 0
    ELSE IF pc = "extract" THEN Len(document.pages) - i
    ELSE Len(document.pages) - 1 - i

(* C9: termination of the matching loop.  After n iterations of a call that *)
(* is still in its loop, n titles have been popped; a call makes at most    *)
(* (worklist size at entry + 1) iterations and a conversion at most         *)
(* (pages visited + matched titles).                                        *)
C9_IterationBound ==
    /\ iters <= entrySize + 1
    /\ totalIters <= PagesVisited + Len(cuts)
    /\ pc = "extract" => Len(sections) = entrySize - iters
    /\ (pc = "extract" /\ iters > 0) => last.kind = "match"

\* a call that matched every title of a worklist of two or more, one of them the
\* empty title, and returned on its last iteration
C9_AllMatchedThenReturn ==
    /\ pc = "pages"
    /\ entrySize >= 2
    /\ iters = entrySize + 1
    /\ \E k \in 1..Len(usedSections) : usedSections[k] = <<>>
    /\ \E k \in 1..Len(usedSections) : usedSections[k] # <<>>

-----------------------------------------------------------------------------
(* C10: span order.  Every buffer is the concatenation of the spans given   *)
(* to it, in the order the pages were visited: a span of a later page       *)
(* stands before a span of an earlier page.                                 *)
C10_SpanOrder ==
    (pc # "start" /\ document.hasTOC) =>
        \A k \in 1..Len(sectionTexts) :
            /\ sectionTexts[k] = Concat([j \in 1..Len(spans[k]) |-> SpanText(spans[k][j])])
            /\ \A j \in 1..(Len(spans[k]) - 1) : spans[k][j].page > spans[k][j + 1].page

\* the title was not found on page p + 1, whose whole text went to the buffer, and
\* was then found at an offset o > 0 of page p
C10_TwoPageSection ==
    \E k \in 1..Len(sectionTexts) :
        /\ k <= Len(spans)
        /\ Len(spans[k]) = 2
        /\ spans[k][1].from = 0
        /\ spans[k][1].to = Len(NormalizedPage(spans[k][1].page))
        /\ spans[k][1].to > 0
        /\ spans[k][2].page = spans[k][1].page - 1
        /\ spans[k][2].from > 0
        /\ spans[k][2].to > spans[k][2].from
        /\ sectionTexts[k] = NormalizedPage(spans[k][1].page)
                               \o SubstrFrom(NormalizedPage(spans[k][2].page), spans[k][2].from)

====
